---------------------------- MODULE Spec2Model ----------------------------
(***************************************************************************)
(* Connection admission, login and credential use of the chat server.      *)
(*                                                                         *)
(*   src/server/server.go   Server, Run (middleware chain), Recover,       *)
(*                          corsMiddleware, AuthorizeMiddleware,           *)
(*                          GetSessionHandle, LoginHandle, Hello           *)
(*   src/unnamed/part_000   PromptHandler.Rewrite / Translate / request    *)
(*                                                                         *)
(* A request is served by one atomic action that runs the whole handler    *)
(* chain installed by Server.Run, with gin's index-based Next()/Abort().   *)
(***************************************************************************)
EXTENDS Integers, Sequences, FiniteSets, TLC

VARIABLES
    EnableAuth,        \* s.Config.EnableAuth
    AccessKey,         \* s.Config.AccessKey
    DebugMode,         \* s.DebugMode (Run's debug argument): installs corsMiddleware
    ChatSession,       \* s.ChatSession : sessionId -> [ClientIP, Username, SessionId]
    ApiKeyAccessStat,  \* s.ApiKeyAccessStat : api key -> int64
    cookies,           \* session cookies the server has signed and handed out
    last,              \* the request served last and what happened to it
    issued,            \* <<sessionId, address, token>> of every login answered Success
    channels,          \* open realtime channels per sessionId
    now,               \* wall clock, in milliseconds
    uses,              \* times at which an upstream API key was sent upstream
    pc,                \* PromptHandler workers: position in Rewrite/Translate
    wres,              \* PromptHandler workers: response written
    goroutines,        \* request goroutines at work on s.ChatSession, step by step
    fatal              \* the Go runtime stopped the process (fatal error)

vars == <<EnableAuth, AccessKey, DebugMode, ChatSession, ApiKeyAccessStat,
          cookies, last, issued, channels, now, uses, pc, wres,
          goroutines, fatal>>

config == <<EnableAuth, AccessKey, DebugMode>>
registry == <<ChatSession, cookies, issued>>
prompts == <<now, uses, pc, wres>>
conc == <<goroutines, fatal>>

-----------------------------------------------------------------------------
(* Bounds of the model *)

\* number of sessions LoginHandle may register
MaxSessions == 2

\* the same with enforcement disabled, when the gate reads neither the
\* registry nor the cookie session
MaxSessionsNoAuth == 1

\* gin's abortIndex (math.MaxInt8 >> 1): c.Abort() sets c.index to it
AbortIndex == 63

-----------------------------------------------------------------------------
(* Values *)

Addrs == {"1.2.3.4", "5.6.7.8"}          \* c.ClientIP()
Users == {"alice", "bob"}                \* GetUsers(): the allow-list
BadBody == "<undecodable>"               \* a body json.Decode rejects
Bodies == Users \cup {"mallory", "", BadBody}
Keys == {"", "secret"}                   \* Config.AccessKey, and the ACCESS_KEY header sent
Absent == "<absent>"                     \* a header the request does not carry
Nil == "<nil>"                           \* Go nil for an interface value

\* Session ids are 1, 2, ... in the order RandString hands them out; 0 is the
\* empty string a missing header or query parameter yields.
NoId == 0
Sids == 0 .. MaxSessions

Success == "Success"
Failed == "Failed"
NotAuthorized == "NotAuthorized"
ErrorMsg == "ErrorMsg"

BizVo(code, message, data) == [Code |-> code, Message |-> message, Data |-> data]

PathChars ==
   "/hello"                       :> <<"/", "h", "e", "l", "l", "o">> @@
   "/chat/index.html"             :> <<"/", "c", "h", "a", "t", "/", "i", "n", "d", "e", "x", ".", "h", "t", "m", "l">> @@
   "/api/login"                   :> <<"/", "a", "p", "i", "/", "l", "o", "g", "i", "n">> @@
   "/api/config/chat-roles/get"   :> <<"/", "a", "p", "i", "/", "c", "o", "n", "f", "i", "g", "/", "c", "h", "a", "t", "-", "r", "o", "l", "e", "s", "/", "g", "e", "t">> @@
   "/api/config/set"              :> <<"/", "a", "p", "i", "/", "c", "o", "n", "f", "i", "g", "/", "s", "e", "t">> @@
   "/api/chat"                    :> <<"/", "a", "p", "i", "/", "c", "h", "a", "t">> @@
   "/api/session/get"             :> <<"/", "a", "p", "i", "/", "s", "e", "s", "s", "i", "o", "n", "/", "g", "e", "t">> @@
   "/api/chat/history"            :> <<"/", "a", "p", "i", "/", "c", "h", "a", "t", "/", "h", "i", "s", "t", "o", "r", "y">> @@
   "/api"                         :> <<"/", "a", "p", "i">> @@
   "/api/config"                  :> <<"/", "a", "p", "i", "/", "c", "o", "n", "f", "i", "g">> @@
   "/favicon.ico"                 :> <<"/", "f", "a", "v", "i", "c", "o", "n", ".", "i", "c", "o">> @@
   "/apix"                        :> <<"/", "a", "p", "i", "x">> @@
   "/api/configuration"           :> <<"/", "a", "p", "i", "/", "c", "o", "n", "f", "i", "g", "u", "r", "a", "t", "i", "o", "n">>

\* strings.HasPrefix(path, prefix), on the characters of both
HasPrefix(path, prefix) ==
    LET s == PathChars[path]
        p == PathChars[prefix]
    IN  Len(s) >= Len(p) /\ SubSeq(s, 1, Len(p)) = p


-----------------------------------------------------------------------------
(* Requests and the per-request context (gin.Context) *)

Request(path, ip, query, token, accessKey, cookie, body, saveOk, fault) ==
    [path |-> path,            \* c.Request.URL.Path
     ip |-> ip,                \* c.ClientIP()
     query |-> query,          \* c.Query("sessionId")
     token |-> token,          \* c.GetHeader(types.TokenName)
     accessKey |-> accessKey,  \* the ACCESS_KEY header, Absent when not sent
     cookie |-> cookie,        \* the session cookie sent: a set of <<sessionId, user>>
     body |-> body,            \* the token of the JSON body, or BadBody
     saveOk |-> saveOk,        \* whether session.Save() succeeds for this request
     fault |-> fault]          \* where an unexpected panic is raised, if anywhere

NoRequest == Request("", "", NoId, NoId, "", {}, "", TRUE, "none")

\* The route table of Server.Run: the handler gin appends to the middlewares.
Route(path) ==
    CASE path = "/hello" -> "Hello"
      [] path = "/api/session/get" -> "GetSessionHandle"
      [] path = "/api/login" -> "LoginHandle"
      [] path = "/api/chat" -> "ChatHandle"
      [] path = "/api/chat/history" -> "GetChatHistoryHandle"
      [] path = "/api/config/set" -> "ConfigSetHandle"
      [] path = "/api/config/chat-roles/get" -> "GetChatRoleListHandle"
      [] path = "/chat/index.html" -> "StaticFS"
      [] OTHER -> "NoRoute"

\* The handler chain of Server.Run: gin.Default() installs Logger and Recovery,
\* then cors (debug only), session, Authorize, Recover, then the route's handler.
Handlers(path) ==
    <<"Logger", "Recovery">>
      \o (IF DebugMode THEN <<"corsMiddleware">> ELSE <<>>)
      \o <<"sessionMiddleware", "AuthorizeMiddleware", "Recover">>
      \o <<Route(path)>>

NewContext(r) ==
    [req |-> r,
     handlers |-> Handlers(r.path),
     index |-> 0,              \* 1-based here: gin starts at -1 over 0-based handlers
     trace |-> <<>>,           \* handlers entered, in order
     body |-> <<>>,            \* envelopes written with c.JSON
     status |-> 200,
     user |-> Nil,             \* c.Keys[types.SessionKey]
     seen |-> Nil,             \* c.Keys[types.SessionKey] as the route's handler finds it
     decision |-> "UNCHECKED", \* what AuthorizeMiddleware did with the request
     panic |-> FALSE,          \* a panic is unwinding the stack
     ChatSession |-> ChatSession,
     cookies |-> cookies]

\* c.Abort()
Abort(c) == [c EXCEPT !.index = AbortIndex]

\* c.JSON(http.StatusOK, vo)
JSON(c, vo) == [c EXCEPT !.body = Append(@, vo)]

\* IsBoundTo without the comparison of addresses
IsBoundToAnyAddress(sessions, sessionId, ip) == sessionId \in DOMAIN sessions

\* s.ChatSession[sessionId] exists and its ClientIP is the caller's
IsBoundTo(sessions, sessionId, ip) ==
    sessionId \in DOMAIN sessions /\ sessions[sessionId].ClientIP = ip

\* SessionGet that answers with any entry of the cookie, whatever its key
SessionGetAnyKey(cookie, sessionId) ==
    IF cookie # {} THEN (CHOOSE e \in cookie : TRUE)[2] ELSE Nil

\* sessions.Default(c).Get(sessionId) on the cookie the request carries
SessionGet(cookie, sessionId) ==
    IF \E e \in cookie : e[1] = sessionId
    THEN (CHOOSE e \in cookie : e[1] = sessionId)[2]
    ELSE Nil

\* utils.Containuser(GetUsers(), token)
Containuser(users, token) == token \in users

\* utils.RandString(42): an identifier no earlier call returned
RandString(sessions) == Cardinality(DOMAIN sessions) + 1

\* rule 1 without the public role listing
IsOpenPathNoRoles(path) ==
    \/ ~EnableAuth
    \/ path = "/api/login"
    \/ ~HasPrefix(path, "/api")

\* rule 1 of AuthorizeMiddleware: nothing to check
IsOpenPath(path) ==
    \/ ~EnableAuth
    \/ path = "/api/login"
    \/ path = "/api/config/chat-roles/get"
    \/ ~HasPrefix(path, "/api")

IsConfigPath(path) == HasPrefix(path, "/api/config")

\* rule 3 taking every path under /api/chat for the WebSocket request
IsChatPathPrefix(path) == HasPrefix(path, "/api/chat")

IsChatPath(path) == path = "/api/chat"

\* the key comparison letting a request without the header through
AccessKeyMatchesOrAbsent(accessKey) == accessKey = AccessKey \/ accessKey = ""

AccessKeyMatches(accessKey) == accessKey = AccessKey

\* c.GetHeader giving the header as the request has it, sent or not
GetHeaderRaw(value) == value

\* c.GetHeader(key): the value of the header, "" when the request has none
GetHeader(value) == IF value = Absent THEN "" ELSE value

RECURSIVE Next(_), Loop(_), Call(_, _)

\* letting the request through and then refusing it as well
AllowedAndRejected(c) ==
    [Abort(Next([c EXCEPT !.decision = "ALLOWED"])) EXCEPT !.decision = "REJECTED"]

\* AuthorizeMiddleware lets the request through: c.Next()
Allowed(c) == Next([c EXCEPT !.decision = "ALLOWED"])

\* a refusal that forgets c.Abort()
RejectedNoAbort(c) == [c EXCEPT !.decision = "REJECTED"]

\* a refusal that also drops the session the request named from the registry
RejectedForgetting(c) ==
    [Abort(c) EXCEPT !.decision = "REJECTED",
                     !.ChatSession = [k \in DOMAIN @ \ {c.req.query} |-> @[k]]]

\* AuthorizeMiddleware refuses the request: c.Abort()
Rejected(c) == [Abort(c) EXCEPT !.decision = "REJECTED"]

AuthorizeMiddleware(c) ==
    LET r == c.req IN
    IF r.fault = "authorize" THEN [c EXCEPT !.panic = TRUE]
    ELSE IF IsOpenPath(r.path) THEN Allowed(c)
    ELSE IF IsConfigPath(r.path) THEN
        IF ~AccessKeyMatches(GetHeader(r.accessKey))
        THEN JSON(Rejected(c), BizVo(NotAuthorized, "No Permissions", NoId))
        ELSE Allowed(c)
    ELSE IF IsChatPath(r.path) THEN
        IF IsBoundTo(c.ChatSession, r.query, r.ip)
        THEN Allowed(c)
        ELSE Rejected(c)
    ELSE
        LET userInfo == SessionGet(r.cookie, r.token) IN
        IF userInfo # Nil
        THEN Allowed([c EXCEPT !.user = userInfo])
        ELSE JSON(Rejected(c), BizVo(NotAuthorized, "Not Authorized", NoId))

\* Recover: defer recover(), then c.Next()
Recover(c) ==
    LET d == Next(c) IN
    IF d.panic
    THEN Abort(JSON([d EXCEPT !.panic = FALSE], BizVo(Failed, ErrorMsg, NoId)))
    ELSE d

\* gin.Recovery() of gin.Default(): recover(), then c.AbortWithStatus(500)
Recovery(c) ==
    LET d == Next(c) IN
    IF d.panic
    THEN Abort([d EXCEPT !.panic = FALSE, !.status = 500])
    ELSE d

\* corsMiddleware: its deferred recover() only logs the panic
corsMiddleware(c) ==
    LET d == Next(c) IN [d EXCEPT !.panic = FALSE]

\* sessions.Sessions(name, store): binds the cookie session, then c.Next()
sessionMiddleware(c) == Next(c)

\* GetSessionHandle that answers Success to whoever reaches it
GetSessionHandleNoLookup(c) == JSON(c, BizVo(Success, "", NoId))

GetSessionHandle(c) ==
    IF IsBoundTo(c.ChatSession, c.req.token, c.req.ip)
    THEN JSON(c, BizVo(Success, "", NoId))
    ELSE JSON(c, BizVo(NotAuthorized, "Not Authorized", NoId))

\* LoginHandle without the return that follows the "Invalid user" answer
LoginHandleNoReturn(c) ==
    LET r == c.req IN
    IF r.body = BadBody THEN JSON(c, BizVo(Failed, ErrorMsg, NoId))
    ELSE
        LET d == IF ~Containuser(Users, r.body)
                 THEN JSON(c, BizVo(Failed, "Invalid user", NoId))
                 ELSE c
            sessionId == RandString(d.ChatSession)
            entry == [ClientIP |-> r.ip, Username |-> r.body, SessionId |-> sessionId]
            saved == IF r.saveOk
                     THEN d.cookies \cup {r.cookie \cup {<<sessionId, r.body>>}}
                     ELSE d.cookies
        IN  JSON([d EXCEPT !.cookies = saved,
                           !.ChatSession = (sessionId :> entry) @@ @],
                 BizVo(Success, "", sessionId))

LoginHandle(c) ==
    LET r == c.req IN
    IF r.body = BadBody THEN JSON(c, BizVo(Failed, ErrorMsg, NoId))
    ELSE IF ~Containuser(Users, r.body) THEN JSON(c, BizVo(Failed, "Invalid user", NoId))
    ELSE
        LET sessionId == RandString(c.ChatSession)
            entry == [ClientIP |-> r.ip, Username |-> r.body, SessionId |-> sessionId]
            saved == IF r.saveOk
                     THEN c.cookies \cup {r.cookie \cup {<<sessionId, r.body>>}}
                     ELSE c.cookies
        IN  JSON([c EXCEPT !.cookies = saved,
                           !.ChatSession = (sessionId :> entry) @@ @],
                 BizVo(Success, "", sessionId))

Hello(c) == JSON(c, BizVo(Success, "HELLO, ChatGPT !!!", NoId))

\* one handler of the chain; a handler whose code is elsewhere only runs
Call(h, c) ==
    LET e == [c EXCEPT !.trace = Append(@, h),
                       !.seen = IF h = Route(c.req.path) THEN c.user ELSE @] IN
    CASE h = "Logger" -> Next(e)
      [] h = "Recovery" -> Recovery(e)
      [] h = "corsMiddleware" -> corsMiddleware(e)
      [] h = "sessionMiddleware" -> sessionMiddleware(e)
      [] h = "AuthorizeMiddleware" -> AuthorizeMiddleware(e)
      [] h = "Recover" -> Recover(e)
      [] e.req.fault = "handler" -> [e EXCEPT !.panic = TRUE]
      [] h = "GetSessionHandle" -> GetSessionHandle(e)
      [] h = "LoginHandle" -> LoginHandle(e)
      [] h = "Hello" -> Hello(e)
      [] OTHER -> e

\* the loop of gin's Context.Next()
Loop(c) ==
    IF c.panic \/ c.index > Len(c.handlers) THEN c
    ELSE LET d == Call(c.handlers[c.index], c) IN
         IF d.panic THEN d ELSE Loop([d EXCEPT !.index = d.index + 1])

\* gin's Context.Next(): c.index++, then run the handlers from there
Next(c) == Loop([c EXCEPT !.index = c.index + 1])

\* the engine serving one request: ServeHTTP runs the chain from the start
Served(r) == Next(NewContext(r))

Outcome(r, c) ==
    [req |-> r, trace |-> c.trace, body |-> c.body, status |-> c.status,
     user |-> c.user, seen |-> c.seen, decision |-> c.decision]

\* the logins answered Success so far, with the sessionId each answer carries
Issued(r, c) ==
    IF r.path = "/api/login"
    THEN issued \cup {<<c.body[i].Data, r.ip, r.body>> :
                        i \in {k \in DOMAIN c.body : c.body[k].Code = Success}}
    ELSE issued

-----------------------------------------------------------------------------
(* The server: construction and the requests it serves *)

Workers == {"w1", "w2"}

\* the goroutines net/http starts, one for each request in flight
Goroutines == {1, 2, 3}

\* a goroutine that has not been given its request yet
Waiting == [pc |-> "idle", ip |-> "", user |-> "", sessionId |-> NoId,
            snap |-> <<>>, ok |-> FALSE, session |-> Nil, answer |-> NoId]

\* no request is being observed
Idle == [req |-> NoRequest, trace |-> <<>>, body |-> <<>>, status |-> 200,
         user |-> Nil, seen |-> Nil, decision |-> "UNCHECKED"]

\* NewServer: empty maps, DebugMode unset; the configuration is whatever
\* LoadConfig read
Init ==
    /\ EnableAuth \in BOOLEAN
    /\ AccessKey \in Keys
    /\ DebugMode = FALSE
    /\ ChatSession = <<>>
    /\ ApiKeyAccessStat = <<>>
    /\ cookies = {{}}
    /\ last = Idle
    /\ issued = {}
    /\ channels = <<>>
    /\ now = 0
    /\ uses = <<>>
    /\ pc = [w \in Workers |-> "idle"]
    /\ wres = [w \in Workers |-> "none"]
    /\ goroutines = [g \in Goroutines |-> Waiting]
    /\ fatal = FALSE

\* LoginHandle registers at most MaxSessions sessions
CanServe(r) ==
    (r.path = "/api/login" /\ r.fault = "none" /\ r.body \in Users)
        => Cardinality(DOMAIN ChatSession) <
                (IF EnableAuth THEN MaxSessions ELSE MaxSessionsNoAuth)

\* engine.ServeHTTP for request r: the whole chain, start to end
Serve(r) ==
    /\ last = Idle
    /\ CanServe(r)
    /\ LET c == Served(r) IN
        /\ last' = Outcome(r, c)
        /\ ChatSession' = c.ChatSession
        /\ cookies' = c.cookies
        /\ issued' = Issued(r, c)
    /\ UNCHANGED <<config, ApiKeyAccessStat, channels, prompts, conc>>

\* GET /hello, the static files, GET /api/config/chat-roles/get
PublicRequests ==
    {Request(path, "1.2.3.4", NoId, NoId, accessKey, {}, "", TRUE, "none") :
        path \in {"/hello", "/chat/index.html", "/api/config/chat-roles/get"},
        accessKey \in Keys}

\* POST /api/login
LoginRequests ==
    {Request("/api/login", ip, NoId, NoId, "", x[1], body, x[2], "none") :
        ip \in Addrs, body \in Users, x \in cookies \X BOOLEAN}
    \cup
    {Request("/api/login", ip, NoId, NoId, "", {}, body, TRUE, "none") :
        ip \in Addrs, body \in Bodies \ Users}

\* POST /api/config/set, one of the administrative routes
ConfigRequests ==
    {Request("/api/config/set", "1.2.3.4", NoId, token, accessKey, cookie, "", TRUE, "none") :
        accessKey \in Keys, token \in Sids, cookie \in cookies}
    \cup
    {Request("/api/config/set", "1.2.3.4", NoId, NoId, Absent, {}, "", TRUE, "none")}

\* /api/chat, the WebSocket upgrade request
ChatRequests ==
    {Request("/api/chat", ip, query, NoId, "", {}, "", TRUE, "none") :
        ip \in Addrs, query \in Sids}

\* GET /api/session/get, POST /api/chat/history: the header-session routes
ApiRequests ==
    {Request("/api/session/get", ip, NoId, token, "", cookie, "", TRUE, "none") :
        ip \in Addrs, token \in Sids, cookie \in cookies}
    \cup
    {Request("/api/chat/history", "1.2.3.4", NoId, token, "", cookie, "", TRUE, "none") :
        token \in Sids, cookie \in cookies}

\* paths with no route of their own: gin runs the middlewares, then NoRoute
OtherRequests ==
    {Request(path, "1.2.3.4", NoId, NoId, accessKey, {}, "", TRUE, "none") :
        path \in {"/favicon.ico", "/api/configuration"}, accessKey \in Keys}
    \cup
    {Request("/apix", "1.2.3.4", NoId, token, "", cookie, "", TRUE, "none") :
        token \in Sids, cookie \in {x \in cookies : Cardinality(x) <= 1}}

PublicRequest == \E r \in PublicRequests : Serve(r)

OtherRequest == \E r \in OtherRequests : Serve(r)

LoginRequest == \E r \in LoginRequests : Serve(r)

ConfigRequest == \E r \in ConfigRequests : Serve(r)

ChatRequest == \E r \in ChatRequests : Serve(r)

ApiRequest == \E r \in ApiRequests : Serve(r)

\* the exchange is over: the next request is observed from a clean slate
Forget ==
    /\ last # Idle
    /\ last' = Idle
    /\ UNCHANGED <<config, registry, ApiKeyAccessStat, channels, prompts, conc>>

Next0 ==
    \/ Forget
    \/ PublicRequest
    \/ LoginRequest
    \/ ConfigRequest
    \/ ChatRequest
    \/ ApiRequest
    \/ OtherRequest

Spec == Init /\ [][Next0]_vars

-----------------------------------------------------------------------------
(* Unexpected faults: a panic raised while a handler of the chain runs *)

Faults == {"authorize", "handler"}

\* Run(webRoot, path, debug): s.DebugMode = debug, and cors joins the chain
InitRun ==
    /\ EnableAuth \in BOOLEAN
    /\ AccessKey \in Keys
    /\ DebugMode \in BOOLEAN
    /\ ChatSession = <<>>
    /\ ApiKeyAccessStat = <<>>
    /\ cookies = {{}}
    /\ last = Idle
    /\ issued = {}
    /\ channels = <<>>
    /\ now = 0
    /\ uses = <<>>
    /\ pc = [w \in Workers |-> "idle"]
    /\ wres = [w \in Workers |-> "none"]
    /\ goroutines = [g \in Goroutines |-> Waiting]
    /\ fatal = FALSE

\* a request during which AuthorizeMiddleware or the route's handler panics
FaultyRequest ==
    \E r \in PublicRequests \cup ConfigRequests \cup ChatRequests \cup ApiRequests,
       fault \in Faults :
        Serve([r EXCEPT !.fault = fault])

NextFault ==
    \/ Forget
    \/ LoginRequest
    \/ FaultyRequest

SpecFault == InitRun /\ [][NextFault]_vars

-----------------------------------------------------------------------------
(* Realtime channels: what ChatHandle does with an admitted upgrade request *)

\* open realtime channels, all sessions together
MaxChannels == 2

Count(f, k) == IF k \in DOMAIN f THEN f[k] ELSE 0

RECURSIVE Total(_)
Total(f) ==
    IF DOMAIN f = {} THEN 0
    ELSE LET k == CHOOSE x \in DOMAIN f : TRUE
         IN  f[k] + Total([x \in DOMAIN f \ {k} |-> f[x]])

\* ChatHandle: the connection is upgraded and stays open for the session
ChatHandle(open, c) ==
    IF "ChatHandle" \in {c.trace[i] : i \in DOMAIN c.trace}
       /\ c.req.query \in DOMAIN c.ChatSession
    THEN (c.req.query :> Count(open, c.req.query) + 1) @@ open
    ELSE open

\* /api/chat served, and the channel ChatHandle opens for it
ChatOpen ==
    \E r \in ChatRequests :
        /\ last = Idle
        /\ Total(channels) < MaxChannels
        /\ LET c == Served(r) IN
            /\ last' = Outcome(r, c)
            /\ channels' = ChatHandle(channels, c)
        /\ UNCHANGED <<config, registry, ApiKeyAccessStat, prompts, conc>>

\* the client or the server closes a channel
ChatClose ==
    \E s \in DOMAIN channels :
        /\ channels[s] > 0
        /\ channels' = [channels EXCEPT ![s] = @ - 1]
        /\ UNCHANGED <<config, registry, ApiKeyAccessStat, last, prompts, conc>>

NextChat ==
    \/ Forget
    \/ LoginRequest
    \/ ChatOpen
    \/ ChatClose

SpecChat == Init /\ [][NextChat]_vars

-----------------------------------------------------------------------------
(* Upstream calls: PromptHandler.Rewrite / Translate on concurrent workers *)

\* the budget the Server keeps for each API key: 15 uses a minute
MaxPerWindow == 15
WindowMillis == 60000

\* key uses the model follows, clock ticks, and the length of a tick
MaxUses == 16
MaxTicks == 2
TickMillis == 30000

\* what the upstream call can come back with
Upstream == {"error", "errorState", "choices", "noChoices"}

\* uses of the API key in the window of WindowMillis that ends at time t
UsesInWindow(t) ==
    Cardinality({i \in DOMAIN uses : uses[i] <= t /\ t - uses[i] < WindowMillis})

\* Rewrite / Translate up to the upstream call: bind the body, fetch the key,
\* send the request with the key in its Authorization header
PromptStart(w) ==
    /\ pc[w] = "idle"
    /\ \E bindOk \in BOOLEAN, keyOk \in BOOLEAN :
        IF ~bindOk \/ ~keyOk
        THEN /\ wres' = [wres EXCEPT ![w] = "ERROR"]
             /\ pc' = [pc EXCEPT ![w] = "done"]
             /\ uses' = uses
        ELSE /\ Len(uses) < MaxUses
             /\ uses' = Append(uses, now)
             /\ pc' = [pc EXCEPT ![w] = "posted"]
             /\ wres' = wres
    /\ UNCHANGED <<config, registry, ApiKeyAccessStat, last, channels, now, conc>>

\* the upstream call returns, and Rewrite / Translate answers
PromptFinish(w) ==
    /\ pc[w] = "posted"
    /\ \E up \in Upstream :
        wres' = [wres EXCEPT ![w] =
                    CASE up \in {"error", "errorState"} -> "ERROR"
                      [] up = "choices" -> "SUCCESS"
                      [] OTHER -> "PANIC"]
    /\ pc' = [pc EXCEPT ![w] = "done"]
    /\ UNCHANGED <<config, registry, ApiKeyAccessStat, last, channels, now, uses, conc>>

\* the worker takes the next request
PromptNext(w) ==
    /\ pc[w] = "done"
    /\ pc' = [pc EXCEPT ![w] = "idle"]
    /\ wres' = [wres EXCEPT ![w] = "none"]
    /\ UNCHANGED <<config, registry, ApiKeyAccessStat, last, channels, now, uses, conc>>

\* time passes
Tick ==
    /\ now < MaxTicks * TickMillis
    /\ now' = now + TickMillis
    /\ UNCHANGED <<config, registry, ApiKeyAccessStat, last, channels, uses, pc, wres, conc>>

NextPrompt ==
    \/ Tick
    \/ \E w \in Workers : PromptStart(w)
    \/ \E w \in Workers : PromptFinish(w)
    \/ \E w \in Workers : PromptNext(w)

SpecPrompt == Init /\ [][NextPrompt]_vars

-----------------------------------------------------------------------------
(* Restart: the process ends and NewServer builds the Server again. The      *)
(* registry starts empty; the cookies the clients hold are still valid.       *)

\* NewServer after a run that registered sessions: ChatSession is made anew
Restart ==
    /\ last = Idle
    /\ ChatSession # <<>>
    /\ ChatSession' = <<>>
    /\ UNCHANGED <<config, cookies, issued, ApiKeyAccessStat, last, channels,
                   prompts, conc>>

\* RandString never returns an identifier twice, and the model numbers the
\* identifiers by the size of the registry: logins are followed up to the
\* restart, the other requests across it
LoginBeforeRestart ==
    /\ \A e \in issued : e[1] \in DOMAIN ChatSession
    /\ LoginRequest

NextRestart ==
    \/ Forget
    \/ LoginBeforeRestart
    \/ ApiRequest
    \/ Restart

SpecRestart == Init /\ [][NextRestart]_vars

-----------------------------------------------------------------------------
(* Concurrent requests: s.ChatSession is a plain Go map that LoginHandle     *)
(* writes and AuthorizeMiddleware / GetSessionHandle read with no lock, each  *)
(* request on a goroutine of its own. A map write is runtime.mapassign (find  *)
(* or make the slot of the key) followed by the store of the value into that  *)
(* slot; what unsynchronised accesses do to each other is not defined, so     *)
(* every outcome the runtime can produce is a step of the model.              *)

\* types.ChatSession{}: the value of a slot nothing was stored into yet
ZeroSession == [ClientIP |-> "", Username |-> "", SessionId |-> NoId]

\* the goroutines inside runtime.mapassign (h.flags has hashWriting set)
Writing == {h \in Goroutines : goroutines[h].pc = "insert"}

\* LoginHandle up to the map write: token on the allow-list, RandString(42)
\* returns an identifier no other call returns, the cookie session is saved
LoginBegin(g) ==
    /\ ~fatal
    /\ goroutines[g].pc = "idle"
    /\ \E ip \in Addrs, user \in Users :
        goroutines' = [goroutines EXCEPT ![g] =
            [@ EXCEPT !.pc = "assign", !.ip = ip, !.user = user, !.sessionId = g]]
    /\ UNCHANGED <<config, registry, ApiKeyAccessStat, last, channels, prompts, fatal>>

\* s.ChatSession[sessionId] = ..., entering runtime.mapassign: the runtime
\* stops the process when it sees another writer, if it sees it
MapAssign(g) ==
    /\ ~fatal
    /\ goroutines[g].pc = "assign"
    /\ \/ /\ Writing # {}
          /\ fatal' = TRUE
          /\ UNCHANGED goroutines
       \/ /\ goroutines' = [goroutines EXCEPT ![g] =
                [@ EXCEPT !.pc = "insert", !.snap = ChatSession]]
          /\ UNCHANGED fatal
    /\ UNCHANGED <<config, registry, ApiKeyAccessStat, last, channels, prompts>>

\* runtime.mapassign makes the slot of the key and returns it; when another
\* write went on meanwhile, the buckets this one worked on may be the ones it
\* found on entry
MapInsert(g) ==
    /\ ~fatal
    /\ goroutines[g].pc = "insert"
    /\ \E buckets \in {ChatSession, goroutines[g].snap} :
        ChatSession' = (goroutines[g].sessionId :> ZeroSession) @@ buckets
    /\ goroutines' = [goroutines EXCEPT ![g] = [@ EXCEPT !.pc = "store", !.snap = <<>>]]
    /\ UNCHANGED <<config, cookies, issued, ApiKeyAccessStat, last, channels, prompts, fatal>>

\* the value is stored into the slot mapassign returned
StoreValue(g) ==
    /\ ~fatal
    /\ goroutines[g].pc = "store"
    /\ ChatSession' =
        IF goroutines[g].sessionId \in DOMAIN ChatSession
        THEN [ChatSession EXCEPT ![goroutines[g].sessionId] =
                [ClientIP |-> goroutines[g].ip, Username |-> goroutines[g].user,
                 SessionId |-> goroutines[g].sessionId]]
        ELSE ChatSession
    /\ goroutines' = [goroutines EXCEPT ![g] = [@ EXCEPT !.pc = "answer"]]
    /\ UNCHANGED <<config, cookies, issued, ApiKeyAccessStat, last, channels, prompts, fatal>>

\* c.JSON(http.StatusOK, types.BizVo{Code: types.Success, Data: sessionId})
LoginAnswer(g) ==
    /\ ~fatal
    /\ goroutines[g].pc = "answer"
    /\ goroutines' = [goroutines EXCEPT ![g] =
            [@ EXCEPT !.pc = "done", !.answer = goroutines[g].sessionId]]
    /\ UNCHANGED <<config, registry, ApiKeyAccessStat, last, channels, prompts, fatal>>

\* session, ok := s.ChatSession[sessionId] of AuthorizeMiddleware and of
\* GetSessionHandle: runtime.mapaccess2 stops the process when it sees a
\* writer, if it sees it
Lookup(g) ==
    /\ ~fatal
    /\ goroutines[g].pc = "idle"
    /\ \/ /\ Writing # {}
          /\ fatal' = TRUE
          /\ UNCHANGED goroutines
       \/ /\ \E sessionId \in Goroutines \cup {NoId} :
                goroutines' = [goroutines EXCEPT ![g] =
                    [@ EXCEPT !.pc = "done",
                              !.sessionId = sessionId,
                              !.ok = sessionId \in DOMAIN ChatSession,
                              !.session = IF sessionId \in DOMAIN ChatSession
                                          THEN ChatSession[sessionId]
                                          ELSE ZeroSession]]
          /\ UNCHANGED fatal
    /\ UNCHANGED <<config, registry, ApiKeyAccessStat, last, channels, prompts>>

NextConc ==
    \/ \E g \in Goroutines : LoginBegin(g)
    \/ \E g \in Goroutines : MapAssign(g)
    \/ \E g \in Goroutines : MapInsert(g)
    \/ \E g \in Goroutines : StoreValue(g)
    \/ \E g \in Goroutines : LoginAnswer(g)
    \/ \E g \in Goroutines : Lookup(g)

SpecConc == Init /\ [][NextConc]_vars

-----------------------------------------------------------------------------
(* Properties *)

Served0 == last # Idle /\ last.req.fault = "none"

\* the access key a request presents: that of its ACCESS_KEY header, the empty
\* string when it has no such header
Presented(r) == IF r.accessKey = Absent THEN "" ELSE r.accessKey

NotAuthorizedVo(message) == <<BizVo(NotAuthorized, message, NoId)>>

\* the handlers entered after AuthorizeMiddleware
After(trace) ==
    LET at == {i \in DOMAIN trace : trace[i] = "AuthorizeMiddleware"}
    IN  {trace[i] : i \in {k \in DOMAIN trace : \E a \in at : k > a}}

\* the session was handed out by a login from this address
IssuedTo(sessionId, ip) == \E e \in issued : e[1] = sessionId /\ e[2] = ip

\* C1 as stated: an /api/chat request is ALLOWED when its sessionId was handed
\* out by a successful login from the caller's address, and REJECTED otherwise
\* (another address, or a sessionId no login returned).
C1_SessionBinding_AsStated ==
    (Served0 /\ last.req.path = "/api/chat") =>
        IF IssuedTo(last.req.query, last.req.ip)
        THEN last.decision = "ALLOWED"
        ELSE last.decision = "REJECTED"

\* C1 amended: with authorization enforcement enabled, an /api/chat request is
\* ALLOWED when its sessionId was handed out by a successful login from the
\* caller's address, and REJECTED otherwise.
C1_SessionBinding ==
    (EnableAuth /\ Served0 /\ last.req.path = "/api/chat") =>
        IF IssuedTo(last.req.query, last.req.ip)
        THEN last.decision = "ALLOWED"
        ELSE last.decision = "REJECTED"

C1_Witness ==
    /\ EnableAuth
    /\ last.req.path = "/api/chat"
    /\ \E e \in issued : e[1] = last.req.query /\ e[2] # last.req.ip
    /\ last.decision = "REJECTED"

\* C2 as stated: with enforcement enabled, no session ever has more than one
\* realtime channel open.
C2_SingleChannel ==
    EnableAuth => \A s \in DOMAIN channels : channels[s] <= 1

\* C3 as stated: a request to a path under /api/config is ALLOWED when its
\* ACCESS_KEY header equals the configured key, and REJECTED with NOT_AUTHORIZED
\* when it differs.
C3_AdminKey_AsStated ==
    (Served0 /\ HasPrefix(last.req.path, "/api/config")) =>
        IF Presented(last.req) = AccessKey
        THEN last.decision = "ALLOWED"
        ELSE last.decision = "REJECTED"
             /\ last.body = NotAuthorizedVo("No Permissions")

\* C3 amended: a request to a path under /api/config with the configured key
\* is ALLOWED whatever its session state; with enforcement enabled and the path
\* not the public role listing, a differing key is REJECTED with NOT_AUTHORIZED
\* even when a valid session header is present.
C3_AdminKey ==
    (Served0 /\ HasPrefix(last.req.path, "/api/config")) =>
        /\ Presented(last.req) = AccessKey => last.decision = "ALLOWED"
        /\ (/\ Presented(last.req) # AccessKey
            /\ EnableAuth
            /\ last.req.path # "/api/config/chat-roles/get")
            => /\ last.decision = "REJECTED"
               /\ last.body = NotAuthorizedVo("No Permissions")

C3_Witness ==
    /\ last.req.path = "/api/config/set"
    /\ last.req.accessKey # AccessKey
    /\ \E e \in last.req.cookie : e[1] = last.req.token
    /\ last.decision = "REJECTED"

\* C4 as stated: the API key is never sent upstream more than MaxPerWindow
\* times within any window of WindowMillis.
C4_ThrottleBound ==
    \A t \in {uses[i] : i \in DOMAIN uses} \cup {now} :
        UsesInWindow(t) <= MaxPerWindow

\* C5 as stated: while several workers are in their upstream calls at once, the
\* acquisitions granted within the current window do not exceed MaxPerWindow.
C5_ConcurrentBound ==
    Cardinality({w \in Workers : pc[w] = "posted"}) >= 2
        => UsesInWindow(now) <= MaxPerWindow

\* C6: a login whose token is not on the allow-list is answered with the
\* "Invalid user" failure alone, carries no sessionId, and leaves ChatSession
\* as it was.
C6_RejectedLogin ==
    [][(/\ last' # last
        /\ last'.req.path = "/api/login"
        /\ last'.req.body \notin Users \cup {BadBody})
        => /\ ChatSession' = ChatSession
           /\ last'.body = <<BizVo(Failed, "Invalid user", NoId)>>]_vars

C6_Witness ==
    /\ last.req.path = "/api/login"
    /\ last.req.body = "mallory"
    /\ last.req.ip = "5.6.7.8"
    /\ DOMAIN ChatSession # {}
    /\ last.body = <<BizVo(Failed, "Invalid user", NoId)>>

\* C7: with enforcement disabled every request is ALLOWED; with it enabled,
\* /api/login and /api/config/chat-roles/get are ALLOWED whatever headers they
\* carry, none included.
C7_PublicPaths ==
    Served0 =>
        /\ ~EnableAuth => last.decision = "ALLOWED"
        /\ last.req.path \in {"/api/login", "/api/config/chat-roles/get"}
            => last.decision = "ALLOWED"

C7_Witness ==
    /\ EnableAuth
    /\ AccessKey = "secret"
    /\ last.req.path = "/api/config/chat-roles/get"
    /\ last.req.accessKey = ""
    /\ last.req.token = NoId
    /\ last.decision = "ALLOWED"

\* the paths rule 4 decides: under /api, not public, not /api/config, not /api/chat
HeaderSessionPaths == {"/api/session/get", "/api/chat/history"}

\* C8: with enforcement enabled, a request to a header-session path is ALLOWED
\* exactly when the cookie session holds data under the sessionId of the
\* header; the route's handler then finds that data in the context; otherwise
\* the request is REJECTED with NOT_AUTHORIZED.
C8_HeaderSession ==
    (EnableAuth /\ Served0 /\ last.req.path \in HeaderSessionPaths) =>
        IF \E e \in last.req.cookie : e[1] = last.req.token
        THEN /\ last.decision = "ALLOWED"
             /\ <<last.req.token, last.user>> \in last.req.cookie
             /\ last.seen = last.user
        ELSE /\ last.decision = "REJECTED"
             /\ last.user = Nil
             /\ last.body = NotAuthorizedVo("Not Authorized")

C8_Witness ==
    /\ EnableAuth
    /\ last.req.path = "/api/chat/history"
    /\ last.decision = "ALLOWED"
    /\ last.seen = "bob"
    /\ Cardinality(last.req.cookie) = 2

\* C9: no handler is entered after AuthorizeMiddleware for a request it REJECTED.
C9_ShortCircuit ==
    last.decision = "REJECTED" => After(last.trace) = {}

C9_Witness ==
    /\ last.decision = "REJECTED"
    /\ last.req.path = "/api/session/get"
    /\ last.trace[Len(last.trace)] = "AuthorizeMiddleware"

\* C10 as stated: with enforcement enabled, a panic raised while
\* AuthorizeMiddleware evaluates a request is answered with the generic failure
\* envelope (code Failed).
C10_FaultContained ==
    (EnableAuth /\ last # Idle /\ last.req.fault = "authorize") =>
        last.body = <<BizVo(Failed, ErrorMsg, NoId)>>

\* the answer LoginHandle gives to the same login with an undecodable body
GenericFault(r) == Served([r EXCEPT !.body = BadBody, !.fault = "none"]).body

\* C11 as stated: the answer to a login whose token is not on the allow-list
\* never carries the result code of the answer to a generic fault (an
\* undecodable request body).
C11_DistinctFailureCode ==
    (/\ Served0
     /\ last.req.path = "/api/login"
     /\ last.req.body \notin Users \cup {BadBody})
        => \A i \in DOMAIN last.body, j \in DOMAIN GenericFault(last.req) :
            last.body[i].Code # GenericFault(last.req)[j].Code

\* the entry the login that was given sessionId registers
Registered(sessionId) ==
    [ClientIP |-> goroutines[sessionId].ip, Username |-> goroutines[sessionId].user,
     SessionId |-> sessionId]

\* C12 as stated: once all concurrent calls have finished, every login that
\* answered with a sessionId has its complete entry in ChatSession, and every
\* lookup that found an entry found a completely written one.
C12_RegistryAtomic ==
    /\ (\A g \in Goroutines : goroutines[g].pc \in {"idle", "done"}) =>
        \A g \in Goroutines :
            goroutines[g].answer # NoId =>
                /\ goroutines[g].answer \in DOMAIN ChatSession
                /\ ChatSession[goroutines[g].answer] = Registered(goroutines[g].answer)
    /\ \A g \in Goroutines :
        goroutines[g].ok => goroutines[g].session = Registered(goroutines[g].sessionId)

\* C13 as stated: a session that is registered stays in ChatSession with the
\* same owner and the same address through every later step.
C13_SessionImmutable ==
    [][\A sessionId \in DOMAIN ChatSession :
        ChatSession[sessionId] # ZeroSession =>
            /\ sessionId \in DOMAIN ChatSession'
            /\ ChatSession'[sessionId] = ChatSession[sessionId]]_vars

\* AuthorizeMiddleware alone on request r: a chain with nothing after it
Gate(r) == Next([NewContext(r) EXCEPT !.handlers = <<"AuthorizeMiddleware">>])

\* C14: evaluating the admission gate leaves ChatSession, ApiKeyAccessStat and
\* the session store as they were, whatever the outcome: the registry and the
\* store hold what the successful logins put there and nothing else, and the
\* gate attaches the resolved identity to the request's context on the rule-4
\* ALLOWED path only.
C14_AdmissionFrame ==
    /\ ApiKeyAccessStat = <<>>
    /\ \A sessionId \in DOMAIN ChatSession :
        <<sessionId, ChatSession[sessionId].ClientIP,
          ChatSession[sessionId].Username>> \in issued
    /\ \A e \in issued : e[1] \in DOMAIN ChatSession
    /\ \A cookie \in cookies :
        \A e \in cookie : \E i \in issued : i[1] = e[1] /\ i[3] = e[2]
    /\ Served0 =>
        LET g == Gate(last.req) IN
        /\ g.ChatSession = ChatSession
        /\ g.cookies = cookies
        /\ g.decision = last.decision
        /\ g.user # Nil <=>
            /\ g.decision = "ALLOWED"
            /\ ~IsOpenPath(last.req.path)
            /\ ~IsConfigPath(last.req.path)
            /\ ~IsChatPath(last.req.path)
        /\ g.user # Nil => <<last.req.token, g.user>> \in last.req.cookie

C14_Witness ==
    /\ EnableAuth
    /\ last.req.path = "/api/chat"
    /\ last.req.query \in DOMAIN ChatSession
    /\ ChatSession[last.req.query].ClientIP # last.req.ip
    /\ last.decision = "REJECTED"
    /\ Gate(last.req).body = <<>>

\* C15: every request served enters AuthorizeMiddleware once and leaves it
\* either ALLOWED, and then processing goes on to the route's handler, or
\* REJECTED, and then nothing runs after the gate; never undecided, never both.
C15_OneDecision ==
    Served0 =>
        /\ Cardinality({i \in DOMAIN last.trace :
                            last.trace[i] = "AuthorizeMiddleware"}) = 1
        /\ last.decision \in {"ALLOWED", "REJECTED"}
        /\ last.decision = "ALLOWED" <=> Route(last.req.path) \in After(last.trace)
        /\ last.decision = "REJECTED" <=> After(last.trace) = {}

C15_Witness ==
    /\ EnableAuth
    /\ last.req.path = "/api/config/set"
    /\ last.req.accessKey = AccessKey
    /\ \A e \in last.req.cookie : e[1] # last.req.token
    /\ last.decision = "ALLOWED"
    /\ last.trace[Len(last.trace)] = "ConfigSetHandle"

\* C16 as stated: after a login answered Success with a sessionId, the
\* realtime-channel request carrying it from the caller's address is ALLOWED,
\* and so is a header-session request carrying it with a cookie the server
\* handed out.
C16_LoginUsable ==
    (/\ Served0
     /\ last.req.path = "/api/login"
     /\ last.body # <<>>
     /\ last.body[1].Code = Success)
        => LET sessionId == last.body[1].Data IN
           /\ Gate(Request("/api/chat", last.req.ip, sessionId, NoId, "",
                           {}, "", TRUE, "none")).decision = "ALLOWED"
           /\ \E cookie \in cookies :
                Gate(Request("/api/chat/history", last.req.ip, NoId, sessionId, "",
                             cookie, "", TRUE, "none")).decision = "ALLOWED"

\* C17: with enforcement enabled, /api/session/get answers Success exactly
\* when the cookie session holds the sessionId of the header (the gate admitted
\* the request) and ChatSession holds that sessionId bound to the caller's
\* address; otherwise it answers NOT_AUTHORIZED, also for a session the cookie
\* still holds and the registry, made anew at start-up, does not.
C17_SessionQuery ==
    (EnableAuth /\ Served0 /\ last.req.path = "/api/session/get") =>
        IF /\ \E e \in last.req.cookie : e[1] = last.req.token
           /\ last.req.token \in DOMAIN ChatSession
           /\ ChatSession[last.req.token].ClientIP = last.req.ip
        THEN last.body = <<BizVo(Success, "", NoId)>>
        ELSE last.body = NotAuthorizedVo("Not Authorized")

C17_Witness ==
    /\ EnableAuth
    /\ last.req.path = "/api/session/get"
    /\ \E e \in last.req.cookie : e[1] = last.req.token
    /\ \E e \in issued : e[1] = last.req.token /\ e[2] = last.req.ip
    /\ last.req.token \notin DOMAIN ChatSession
    /\ last.decision = "ALLOWED"
    /\ last.body = NotAuthorizedVo("Not Authorized")

\* the paths of the model by what the claim says decides them
OutsideApi == {"/hello", "/chat/index.html", "/favicon.ico"}
PublicApi == {"/api/login", "/api/config/chat-roles/get"}
AdminApi == {"/api/config/set", "/api/configuration"}
RealtimeApi == {"/api/chat"}
SessionApi == {"/api/session/get", "/api/chat/history", "/apix"}

\* C18: with enforcement enabled, a request whose path does not start with
\* "/api" is ALLOWED whatever it carries, and a request whose path starts with
\* "/api" and is not public is decided by one check alone: the access key
\* under /api/config, the registry binding for /api/chat, the cookie session
\* for every other path.
C18_OnlyApiGated ==
    (EnableAuth /\ Served0) =>
        LET r == last.req
            allowed == last.decision = "ALLOWED"
        IN  /\ r.path \in OutsideApi \cup PublicApi \cup AdminApi
                            \cup RealtimeApi \cup SessionApi
            /\ r.path \in OutsideApi => allowed
            /\ r.path \in AdminApi => (allowed <=> Presented(r) = AccessKey)
            /\ r.path \in RealtimeApi =>
                (allowed <=> /\ r.query \in DOMAIN ChatSession
                             /\ ChatSession[r.query].ClientIP = r.ip)
            /\ r.path \in SessionApi =>
                (allowed <=> \E e \in r.cookie : e[1] = r.token)
            /\ ~allowed => last.decision = "REJECTED"

C18_Witness ==
    /\ EnableAuth
    /\ AccessKey = "secret"
    /\ last.req.path = "/apix"
    /\ last.req.token \in DOMAIN ChatSession
    /\ last.req.cookie = {}
    /\ last.decision = "REJECTED"

C20_OutcomeDiscipline ==
    \A w \in Workers : pc[w] = "done" => wres[w] \in {"ERROR", "SUCCESS"}

=============================================================================
